---- MODULE Spec2Model ----
(***************************************************************************)
(* Model of the AI Dungeon 2 API client (src/src/lib.rs, mod api).         *)
(*                                                                         *)
(* The client is synchronous and single threaded: one call is in progress  *)
(* at a time.  A call is split at each blocking `.send()`: the first step  *)
(* of a call builds the client and sends the request, the next step takes  *)
(* what comes back (a transport error, or a status and a body) and runs    *)
(* the handler to its return or to its next `.send()`.                     *)
(*                                                                         *)
(* Text is modelled as a sequence of pieces (strings): a literal of the    *)
(* source is one piece, a formatted number is one piece per decimal digit. *)
(* Access tokens are sequences of byte values.                             *)
(***************************************************************************)
EXTENDS Integers, Sequences, FiniteSets

VARIABLES
    handles,    \* the AIDungeon values returned so far, in order of creation
    pc,         \* the call in progress and where it blocks
    reqs,       \* the HTTP requests sent by the current (or last) call
    resps,      \* what each `.send()` of that call came back with, in order
    result,     \* what the last call returned (NoResult while a call is in progress)
    started,    \* per handle: the id of the last decoded 200 start response
    issued      \* per handle: the token of the 200 answer of its register or login

vars == <<handles, pc, reqs, resps, result, started, issued>>

-----------------------------------------------------------------------------
(* Bounds of the model *)

MaxHandles == 2

-----------------------------------------------------------------------------
(* Option<T>: None is the empty sequence, Some(x) a one-element sequence *)

None == <<>>
Some(x) == <<x>>
IsNone(o) == o = <<>>
IsSome(o) == o # <<>>
Unwrap(o) == o[1]

-----------------------------------------------------------------------------
(* Program constants *)

URI_USERINFO == <<"https://api.aidungeon.io/users">>
URI_REGISTERUSER == <<"https://api.aidungeon.io/users/@me">>
URI_NEW_SESSION == <<"https://api.aidungeon.io/sessions">>
URI_CURRENT_SESSION == <<"https://api.aidungeon.io/sessions/", "[SESSIONID]", "/inputs">>
URI_START_OPTIONS == <<"https://api.aidungeon.io/sessions/*/config">>
USERAGENT == "soptikha2/aidungeon2-cli"

OK == 200
BAD_REQUEST == 400
NOT_ACCEPTABLE == 406

-----------------------------------------------------------------------------
(* The inputs: what callers pass and what the server and network answer *)

Emails == {"a@b.com"}
Usernames == {"alice"}
Passwords == {"secret"}
Texts == {"open the door", ""}
StoryModes == {"custom", "fantasy"}
CustomPrompts == {None, Some("You wake up...")}
Names == {None, Some("Bob")}
CharacterTypes == {None, Some("knight")}

\* "tok", "x", and "t\n" (a line feed is no visible ASCII)
TokenValues == {<<116, 111, 107>>, <<120>>, <<116, 10>>}

\* identifiers a server can put in a start response; -1 is no u64
SessionIds == {0, 42}
BadSessionIds == {-1}

Statuses == {OK, BAD_REQUEST, 404, NOT_ACCEPTABLE, 500}

\* JSON values: a tag and a payload
JStr(s) == [t |-> "str", v |-> s]
JNum(n) == [t |-> "num", v |-> <<n>>]
JObj(fields) == [t |-> "obj", f |-> fields]
JArr(items) == [t |-> "arr", f |-> [items |-> items]]
JBad == [t |-> "bad", f |-> [bad |-> <<>>]]

StoryText(type, value) == [type |-> type, value |-> value]
Transcripts == {<<>>, <<StoryText("output", "You wake up...")>>}

UserBodies ==
    {JObj([accessToken |-> JStr(tok)]) : tok \in TokenValues}
        \cup {JObj([accessToken |-> JNum(5)]), JObj([id |-> JNum(1)]), JBad}

StoryBodies ==
    {JObj([id |-> JNum(n), story |-> JArr(<<StoryText("output", "You wake up...")>>)]) :
        n \in SessionIds \cup BadSessionIds}
        \cup {JObj([story |-> JArr(<<>>)]), JBad}

ReplyBodies == {JArr(tr) : tr \in Transcripts} \cup {JObj([id |-> JNum(1)]), JBad}

CatalogBodies == {JObj([modes |-> JArr(<<>>)]), JBad}

\* bodies of the responses that are not 200: an error page, or a body that
\* would decode
UserErrorBodies == {JBad, JObj([accessToken |-> JStr(<<120>>)])}
StoryErrorBodies == {JBad, JObj([id |-> JNum(42), story |-> JArr(<<>>)])}
ReplyErrorBodies == {JBad, JArr(<<>>)}
CatalogErrorBodies == {JBad, JObj([modes |-> JArr(<<>>)])}

TransportError == [kind |-> "error", status |-> 0, body |-> JBad]
Response(status, body) == [kind |-> "response", status |-> status, body |-> body]

\* what a `.send()` can come back with: a transport error, or a response;
\* the bodies of responses that are not 200 are `others`
Outcomes(bodies, others) ==
    {TransportError}
        \cup {Response(s, b) : s \in Statuses \ {OK}, b \in others}
        \cup {Response(OK, b) : b \in bodies}

-----------------------------------------------------------------------------
(* Formatting *)

DigitChars == <<"0", "1", "2", "3", "4", "5", "6", "7", "8", "9">>

\* u64::to_string / Display of an unsigned integer: its decimal digits
RECURSIVE U64ToString(_)
U64ToString(n) ==
    IF n < 10 THEN <<DigitChars[n + 1]>>
    ELSE U64ToString(n \div 10) \o <<DigitChars[(n % 10) + 1]>>

CanonicalReason(status) ==
    CASE status = 200 -> "OK"
      [] status = 400 -> "Bad Request"
      [] status = 404 -> "Not Found"
      [] status = 406 -> "Not Acceptable"
      [] status = 500 -> "Internal Server Error"
      [] OTHER -> "<unknown status code>"

\* mutant: the status is shown by its reason alone
StatusDisplay_ReasonOnly(status) == <<CanonicalReason(status)>>

\* Display of a StatusCode: the code, a space, the canonical reason
StatusDisplay(status) == U64ToString(status) \o <<" ", CanonicalReason(status)>>

\* format!("<literal>{}", arg)
Format(literal, arg) == <<literal>> \o arg

\* str::replace on pieces: every piece equal to `from` becomes `to`
RECURSIVE Replace(_, _, _)
Replace(s, from, to) ==
    IF s = <<>> THEN <<>>
    ELSE (IF Head(s) = from THEN to ELSE <<Head(s)>>) \o Replace(Tail(s), from, to)

-----------------------------------------------------------------------------
(* AIDungeonError *)

NoError == [kind |-> "none", msg |-> <<>>]
EmailAlreadyExists == [kind |-> "EmailAlreadyExists", msg |-> <<>>]
UsernameAlreadyExists == [kind |-> "UsernameAlreadyExists", msg |-> <<>>]
InvalidPassword == [kind |-> "InvalidPassword", msg |-> <<>>]
RequestFailed(err) == [kind |-> "RequestFailed", msg |-> <<err>>]
InvalidResponseFromServer(err) == [kind |-> "InvalidResponseFromServer", msg |-> <<err>>]
UnexpectedError(msg) == [kind |-> "UnexpectedError", msg |-> msg]

\* the errors of reqwest, by where they arise
BuilderError == "builder"
SendError == "send"
JsonError == "json"

\* mutant: a reqwest error is reported as an unexpected error
FromReqwestError_AsUnexpected(err) == UnexpectedError(<<err>>)

\* impl From<reqwest::Error>: what `?` makes of a failed build, send or json()
FromReqwestError(err) == RequestFailed(err)

\* impl From<serde_json::error::Error>
FromSerdeJsonError(err) == InvalidResponseFromServer(err)

\* a panic unwinds out of the call: Option::unwrap on None
Panicked == [kind |-> "panic", msg |-> <<>>]

Ok(op, h, val) == [op |-> op, h |-> h, ok |-> TRUE, err |-> NoError, val |-> val]
Err(op, h, err) == [op |-> op, h |-> h, ok |-> FALSE, err |-> err, val |-> <<>>]
NoResult == [op |-> "none", h |-> 0, ok |-> FALSE, err |-> NoError, val |-> <<>>]

-----------------------------------------------------------------------------
(* Clients, requests, handles *)

\* mutant: the token is made a header value without the check
HeaderValueFromStr_Unchecked(s) == [ok |-> TRUE, value |-> s]

\* header::HeaderValue::from_str: every byte is visible ASCII or a tab
IsVisibleAscii(b) == (b >= 32 /\ b < 127) \/ b = 9
HeaderValueFromStr(s) ==
    IF \A i \in 1..Len(s) : IsVisibleAscii(s[i])
    THEN [ok |-> TRUE, value |-> s]
    ELSE [ok |-> FALSE, value |-> <<>>]

\* mutant: the token header is not appended
Client_NoToken(token) == [userAgent |-> USERAGENT, xAccessToken |-> None]

\* a reqwest::Client is its default headers
Client(token) == [userAgent |-> USERAGENT, xAccessToken |-> token]

AIDungeon(client, story_id) == [http_client |-> client, story_id |-> story_id]

Request(client, method, url, body) ==
    [method |-> method, url |-> url, headers |-> client, body |-> body]

\* mutant: username and password change places
UserAuth_Swapped(email, username, password) ==
    [type |-> "UserAuth",
     f |-> [email |-> email, username |-> password, password |-> username]]

UserAuth(email, username, password) ==
    [type |-> "UserAuth",
     f |-> [email |-> email, username |-> username, password |-> password]]

\* Response::json::<User>(): reqwest reports a body that does not decode as a
\* reqwest::Error
DecodeUser(body) ==
    IF body.t = "obj" /\ "accessToken" \in DOMAIN body.f /\ body.f.accessToken.t = "str"
    THEN [ok |-> TRUE, accessToken |-> body.f.accessToken.v]
    ELSE [ok |-> FALSE, accessToken |-> <<>>]

Idle == [op |-> "idle", stage |-> 0, h |-> 0, token |-> <<>>, args |-> <<>>]
Blocked(op, stage, h, token, args) ==
    [op |-> op, stage |-> stage, h |-> h, token |-> token, args |-> args]

\* a request body is moved into the request and gone once the call returns:
\* of a finished call the log keeps each request's line and headers
NoBody == [type |-> "none", f |-> [none |-> <<>>]]
RECURSIVE Sent(_)
Sent(log) ==
    IF log = <<>> THEN <<>>
    ELSE <<[Head(log) EXCEPT !.body = NoBody]>> \o Sent(Tail(log))

Return(r) ==
    /\ pc' = Idle
    /\ result' = r
    /\ reqs' = Sent(reqs)

-----------------------------------------------------------------------------
(* register *)

\* mutant: the "already exists" arm tests the wrong status
UserExistsMatch_WrongStatus(status) ==
    CASE status = BAD_REQUEST -> "exists"
      [] status = OK -> "ok"
      [] OTHER -> "other"

\* mutant: every status but 406 is taken for success
UserExistsMatch_AnyOther(status) ==
    CASE status = NOT_ACCEPTABLE -> "exists"
      [] OTHER -> "ok"

\* the match on the status of the existence check
UserExistsMatch(status) ==
    CASE status = NOT_ACCEPTABLE -> "exists"
      [] status = OK -> "ok"
      [] OTHER -> "other"

\* mutant: the arm for 400 is missing
RegisterMatch_NoBadRequestArm(status) ==
    CASE status = OK -> "ok"
      [] OTHER -> "other"

\* the match on the status of the completion
RegisterMatch(status) ==
    CASE status = OK -> "ok"
      [] status = BAD_REQUEST -> "taken"
      [] OTHER -> "other"

\* register up to its first `.send()`
RegisterCall ==
    /\ pc.op = "idle"
    /\ Len(handles) < MaxHandles
    /\ \E email \in Emails, username \in Usernames, password \in Passwords,
          built \in BOOLEAN :
        /\ resps' = <<>>
        /\ UNCHANGED <<handles, started, issued>>
        /\ IF ~built
           THEN /\ pc' = Idle
                /\ reqs' = <<>>
                /\ result' = Err("register", 0, FromReqwestError(BuilderError))
           ELSE /\ reqs' = <<Request(Client(None), "POST", URI_USERINFO,
                                     UserAuth(Some(email), None, None))>>
                /\ pc' = Blocked("register", 1, 0, <<>>, <<email, username, password>>)
                /\ result' = NoResult

\* register from the answer to the existence check to its return or to the
\* `.send()` of the completion
RegisterUserExists ==
    /\ pc.op = "register" /\ pc.stage = 1
    /\ \E r \in Outcomes(UserBodies, UserErrorBodies), built \in BOOLEAN :
        /\ resps' = Append(resps, r)
        /\ UNCHANGED <<handles, started, issued>>
        /\ IF r.kind = "error"
           THEN /\ Return(Err("register", 0, FromReqwestError(SendError)))
           ELSE
           CASE UserExistsMatch(r.status) = "exists" ->
                /\ Return(Err("register", 0, EmailAlreadyExists))
             [] UserExistsMatch(r.status) = "other" ->
                /\ Return(Err("register", 0, UnexpectedError(Format(
                       "Bad request status code while checking whether user account exists: ",
                       StatusDisplay(r.status)))))
             [] UserExistsMatch(r.status) = "ok" ->
                LET user == DecodeUser(r.body)
                    header_value_access_token == HeaderValueFromStr(user.accessToken)
                IN  IF ~user.ok
                    THEN /\ Return(Err("register", 0, FromReqwestError(JsonError)))
                    ELSE IF ~header_value_access_token.ok
                    THEN /\ Return(Err("register", 0, UnexpectedError(Format(
                                "Bad access token received from server while registering new user: ",
                                <<"failed to parse header value">>))))
                    ELSE IF ~built
                    THEN /\ Return(Err("register", 0, FromReqwestError(BuilderError)))
                    ELSE /\ reqs' = Append(reqs,
                                Request(Client(Some(header_value_access_token.value)),
                                        "PATCH", URI_REGISTERUSER,
                                        UserAuth(None, Some(pc.args[2]), Some(pc.args[3]))))
                         /\ pc' = Blocked("register", 2, 0,
                                          header_value_access_token.value, pc.args)
                         /\ result' = NoResult

\* register from the answer to the completion to its return
RegisterComplete ==
    /\ pc.op = "register" /\ pc.stage = 2
    /\ \E r \in Outcomes(UserBodies, UserErrorBodies) :
        /\ resps' = Append(resps, r)
        /\ IF r.kind = "error"
           THEN /\ Return(Err("register", 0, FromReqwestError(SendError)))
                /\ UNCHANGED <<handles, started, issued>>
           ELSE
           CASE RegisterMatch(r.status) = "ok" ->
                /\ handles' = Append(handles, AIDungeon(Client(Some(pc.token)), None))
                /\ started' = Append(started, None)
                /\ issued' = Append(issued, resps[1].body.f.accessToken.v)
                /\ Return(Ok("register", Len(handles) + 1, <<>>))
             [] RegisterMatch(r.status) = "taken" ->
                /\ Return(Err("register", 0, UsernameAlreadyExists))
                /\ UNCHANGED <<handles, started, issued>>
             [] RegisterMatch(r.status) = "other" ->
                /\ Return(Err("register", 0, UnexpectedError(Format(
                       "Bad request status code while trying to register user: ",
                       StatusDisplay(r.status)))))
                /\ UNCHANGED <<handles, started, issued>>

-----------------------------------------------------------------------------
(* login *)

\* the match on the status of the login response
LoginMatch(status) ==
    CASE status = OK -> "ok"
      [] OTHER -> "other"

\* mutant: a login answered 406 ("Incorrect password.") is reported as
\* InvalidPassword
LoginStatusError_InvalidPassword(status) ==
    IF status = NOT_ACCEPTABLE THEN InvalidPassword
    ELSE UnexpectedError(Format("Bad request status code while trying to log in: ",
                                StatusDisplay(status)))

\* the error of a login answered with a status other than 200
LoginStatusError(status) ==
    UnexpectedError(Format("Bad request status code while trying to log in: ",
                           StatusDisplay(status)))

\* login up to its `.send()`
LoginCall ==
    /\ pc.op = "idle"
    /\ Len(handles) < MaxHandles
    /\ \E email \in Emails, password \in Passwords, built \in BOOLEAN :
        /\ resps' = <<>>
        /\ UNCHANGED <<handles, started, issued>>
        /\ IF ~built
           THEN /\ pc' = Idle
                /\ reqs' = <<>>
                /\ result' = Err("login", 0, FromReqwestError(BuilderError))
           ELSE /\ reqs' = <<Request(Client(None), "POST", URI_USERINFO,
                                     UserAuth(Some(email), None, Some(password)))>>
                /\ pc' = Blocked("login", 1, 0, <<>>, <<email, password>>)
                /\ result' = NoResult

\* login from the answer to its request to its return
LoginUserExists ==
    /\ pc.op = "login" /\ pc.stage = 1
    /\ \E r \in Outcomes(UserBodies, UserErrorBodies), built \in BOOLEAN :
        /\ resps' = Append(resps, r)
        /\ IF r.kind = "error"
           THEN /\ Return(Err("login", 0, FromReqwestError(SendError)))
                /\ UNCHANGED <<handles, started, issued>>
           ELSE
           CASE LoginMatch(r.status) = "other" ->
                /\ Return(Err("login", 0, LoginStatusError(r.status)))
                /\ UNCHANGED <<handles, started, issued>>
             [] LoginMatch(r.status) = "ok" ->
                LET user == DecodeUser(r.body)
                    header_value_access_token == HeaderValueFromStr(user.accessToken)
                IN  IF ~user.ok
                    THEN /\ Return(Err("login", 0, FromReqwestError(JsonError)))
                         /\ UNCHANGED <<handles, started, issued>>
                    ELSE IF ~header_value_access_token.ok
                    THEN /\ Return(Err("login", 0, UnexpectedError(Format(
                                "Bad access token received from server while registering new user: ",
                                <<"failed to parse header value">>))))
                         /\ UNCHANGED <<handles, started, issued>>
                    ELSE IF ~built
                    THEN /\ Return(Err("login", 0, FromReqwestError(BuilderError)))
                         /\ UNCHANGED <<handles, started, issued>>
                    ELSE /\ handles' = Append(handles,
                                AIDungeon(Client(Some(header_value_access_token.value)), None))
                         /\ started' = Append(started, None)
                         /\ issued' = Append(issued, r.body.f.accessToken.v)
                         /\ Return(Ok("login", Len(handles) + 1, <<>>))

-----------------------------------------------------------------------------
(* start_story *)

\* mutant: the options are made to fit the story mode before they are sent
StartOptions_Normalised(character_type, custom_prompt, name, story_mode) ==
    [type |-> "StartOptions",
     f |-> IF story_mode = "custom"
           THEN [characterType |-> None, customPrompt |-> custom_prompt,
                 name |-> None, storyMode |-> story_mode]
           ELSE [characterType |-> character_type, customPrompt |-> None,
                 name |-> name, storyMode |-> story_mode]]

StartOptions(character_type, custom_prompt, name, story_mode) ==
    [type |-> "StartOptions",
     f |-> [characterType |-> character_type, customPrompt |-> custom_prompt,
            name |-> name, storyMode |-> story_mode]]

\* mutant: id is read as a signed integer
DecodeStory_Signed(body) ==
    IF /\ body.t = "obj"
       /\ {"id", "story"} \subseteq DOMAIN body.f
       /\ body.f.id.t = "num"
       /\ body.f.story.t = "arr"
    THEN [ok |-> TRUE, id |-> body.f.id.v[1], story |-> body.f.story.f.items]
    ELSE [ok |-> FALSE, id |-> 0, story |-> <<>>]

\* Response::json::<Story>(): id is a u64, story a list
DecodeStory(body) ==
    IF /\ body.t = "obj"
       /\ {"id", "story"} \subseteq DOMAIN body.f
       /\ body.f.id.t = "num" /\ body.f.id.v[1] >= 0
       /\ body.f.story.t = "arr"
    THEN [ok |-> TRUE, id |-> body.f.id.v[1], story |-> body.f.story.f.items]
    ELSE [ok |-> FALSE, id |-> 0, story |-> <<>>]

\* mutant: 404 is taken for success too
StartStoryMatch_Lenient(status) ==
    CASE status \in {OK, 404} -> "ok"
      [] OTHER -> "other"

\* the match on the status of the session-creation response
StartStoryMatch(status) ==
    CASE status = OK -> "ok"
      [] OTHER -> "other"

\* mutant: an identifier already present is kept
StoryIdAssigned_KeepFirst(story_id, id) == IF IsSome(story_id) THEN story_id ELSE Some(id)

\* mutant: identifier 0 is taken for "no session"
StoryIdAssigned_ZeroIsNone(story_id, id) == IF id = 0 THEN None ELSE Some(id)

\* self.story_id = Some(response.id)
StoryIdAssigned(story_id, id) == Some(id)

\* start_story(custom_prompt, story_mode, name, character_type) on handle h,
\* up to its `.send()`
StartStoryCallWith(h, custom_prompt, story_mode, name, character_type) ==
    /\ pc.op = "idle"
    /\ reqs' = <<Request(handles[h].http_client, "POST", URI_NEW_SESSION,
                         StartOptions(character_type, custom_prompt, name, story_mode))>>
    /\ pc' = Blocked("start_story", 1, h, <<>>,
                     <<custom_prompt, story_mode, name, character_type>>)
    /\ resps' = <<>>
    /\ result' = NoResult
    /\ UNCHANGED <<handles, started, issued>>

StartStoryCall ==
    \E h \in 1..Len(handles), custom_prompt \in CustomPrompts,
       story_mode \in StoryModes, name \in Names,
       character_type \in CharacterTypes :
        StartStoryCallWith(h, custom_prompt, story_mode, name, character_type)

\* start_story from the answer to its request to its return
StartStoryResponse ==
    /\ pc.op = "start_story"
    /\ \E r \in Outcomes(StoryBodies, StoryErrorBodies) :
        /\ resps' = Append(resps, r)
        /\ IF r.kind = "error"
           THEN /\ Return(Err("start_story", pc.h, FromReqwestError(SendError)))
                /\ UNCHANGED <<handles, started, issued>>
           ELSE
           CASE StartStoryMatch(r.status) = "other" ->
                /\ Return(Err("start_story", pc.h, UnexpectedError(Format(
                       "Unexpected status code while sending reply: ",
                       StatusDisplay(r.status)))))
                /\ UNCHANGED <<handles, started, issued>>
             [] StartStoryMatch(r.status) = "ok" ->
                LET response == DecodeStory(r.body)
                IN  IF ~response.ok
                    THEN /\ Return(Err("start_story", pc.h, FromReqwestError(JsonError)))
                         /\ UNCHANGED <<handles, started, issued>>
                    ELSE /\ handles' = [handles EXCEPT ![pc.h].story_id =
                                StoryIdAssigned(@, response.id)]
                         /\ started' = [started EXCEPT ![pc.h] = Some(response.id)]
                         /\ UNCHANGED issued
                         /\ Return(Ok("start_story", pc.h, response.story))

-----------------------------------------------------------------------------
(* send_reply *)

StoryTextInput(text) == [type |-> "StoryTextInput", f |-> [text |-> text]]

\* Response::json::<Vec<StoryText>>()
DecodeStoryTexts(body) ==
    IF body.t = "arr"
    THEN [ok |-> TRUE, items |-> body.f.items]
    ELSE [ok |-> FALSE, items |-> <<>>]

\* mutant: the test is inverted
NoRunningStory_Inverted(self) == IsSome(self.story_id)

\* if self.story_id.is_none()
NoRunningStory(self) == IsNone(self.story_id)

\* URI_CURRENT_SESSION.replace("[SESSIONID]", &self.story_id.unwrap().to_string())
CurrentSessionUri(self) ==
    Replace(URI_CURRENT_SESSION, "[SESSIONID]", U64ToString(Unwrap(self.story_id)))

\* the match on the status of the turn response
SendReplyMatch(status) ==
    CASE status = OK -> "ok"
      [] OTHER -> "other"

\* mutant: the call forgets the session
SendReplySelf_Reset(self) == [self EXCEPT !.story_id = None]

\* send_reply takes &self: the handle after the call is the handle before it
SendReplySelf(self) == self

\* send_reply up to its return (no running story) or to its `.send()`
SendReplyCall ==
    /\ pc.op = "idle"
    /\ \E h \in 1..Len(handles), text \in Texts :
        /\ resps' = <<>>
        /\ UNCHANGED <<started, issued>>
        /\ handles' = [handles EXCEPT ![h] = SendReplySelf(@)]
        /\ IF NoRunningStory(handles[h])
           THEN /\ pc' = Idle
                /\ reqs' = <<>>
                /\ result' = Err("send_reply", h, UnexpectedError(
                       <<"There is no running story, but tried to send reply.">>))
           ELSE IF IsNone(handles[h].story_id)
           THEN /\ pc' = Idle
                /\ reqs' = <<>>
                /\ result' = Err("send_reply", h, Panicked)
           ELSE /\ reqs' = <<Request(handles[h].http_client, "POST",
                                     CurrentSessionUri(handles[h]), StoryTextInput(text))>>
                /\ pc' = Blocked("send_reply", 1, h, <<>>, <<>>)
                /\ result' = NoResult

\* send_reply from the answer to its request to its return
SendReplyResponse ==
    /\ pc.op = "send_reply"
    /\ \E r \in Outcomes(ReplyBodies, ReplyErrorBodies) :
        /\ resps' = Append(resps, r)
        /\ UNCHANGED <<started, issued>>
        /\ handles' = [handles EXCEPT ![pc.h] = SendReplySelf(@)]
        /\ IF r.kind = "error"
           THEN Return(Err("send_reply", pc.h, FromReqwestError(SendError)))
           ELSE
           CASE SendReplyMatch(r.status) = "other" ->
                Return(Err("send_reply", pc.h, UnexpectedError(Format(
                    "Unexpected status code while sending reply: ",
                    StatusDisplay(r.status)))))
             [] SendReplyMatch(r.status) = "ok" ->
                LET response == DecodeStoryTexts(r.body)
                IN  IF ~response.ok
                    THEN Return(Err("send_reply", pc.h, FromReqwestError(JsonError)))
                    ELSE Return(Ok("send_reply", pc.h, response.items))

-----------------------------------------------------------------------------
(* get_recommended_story *)

\* Response::json::<StartModesContainer>()
DecodeStartModes(body) ==
    IF body.t = "obj" /\ "modes" \in DOMAIN body.f
    THEN [ok |-> TRUE, modes |-> body.f.modes.f.items]
    ELSE [ok |-> FALSE, modes |-> <<>>]

\* the match on the status of the catalog response
RecommendedStoryMatch(status) ==
    CASE status = OK -> "ok"
      [] OTHER -> "other"

\* get_recommended_story up to its `.send()`
GetRecommendedStoryCall ==
    /\ pc.op = "idle"
    /\ \E h \in 1..Len(handles) :
        /\ reqs' = <<Request(handles[h].http_client, "GET", URI_START_OPTIONS,
                             NoBody)>>
        /\ pc' = Blocked("get_recommended_story", 1, h, <<>>, <<>>)
        /\ resps' = <<>>
        /\ result' = NoResult
        /\ UNCHANGED <<handles, started, issued>>

\* get_recommended_story from the answer to its request to its return
GetRecommendedStoryResponse ==
    /\ pc.op = "get_recommended_story"
    /\ \E r \in Outcomes(CatalogBodies, CatalogErrorBodies) :
        /\ resps' = Append(resps, r)
        /\ UNCHANGED <<handles, started, issued>>
        /\ IF r.kind = "error"
           THEN Return(Err("get_recommended_story", pc.h, FromReqwestError(SendError)))
           ELSE
           CASE RecommendedStoryMatch(r.status) = "other" ->
                Return(Err("get_recommended_story", pc.h, UnexpectedError(Format(
                    "Unexpected status code while trying to fetch premade stories: ",
                    StatusDisplay(r.status)))))
             [] RecommendedStoryMatch(r.status) = "ok" ->
                LET response == DecodeStartModes(r.body)
                IN  IF ~response.ok
                    THEN Return(Err("get_recommended_story", pc.h,
                                    FromReqwestError(JsonError)))
                    ELSE Return(Ok("get_recommended_story", pc.h, response.modes))

-----------------------------------------------------------------------------

Init ==
    /\ handles = <<>>
    /\ pc = Idle
    /\ reqs = <<>>
    /\ resps = <<>>
    /\ result = NoResult
    /\ started = <<>>
    /\ issued = <<>>

Next ==
    \/ RegisterCall
    \/ RegisterUserExists
    \/ RegisterComplete
    \/ LoginCall
    \/ LoginUserExists
    \/ StartStoryCall
    \/ StartStoryResponse
    \/ SendReplyCall
    \/ SendReplyResponse
    \/ GetRecommendedStoryCall
    \/ GetRecommendedStoryResponse

Spec == Init /\ [][Next]_vars

-----------------------------------------------------------------------------
(* Properties *)

\* `sub` occurs in `s` as a run of consecutive pieces
Contains(s, sub) ==
    \E i \in 0..(Len(s) - Len(sub)) : SubSeq(s, i + 1, i + Len(sub)) = sub

\* the call that is in progress or has just returned
CurrentOp == IF pc.op # "idle" THEN pc.op ELSE result.op
Returned(op) == pc.op = "idle" /\ result.op = op
Answered(n, status) ==
    Len(resps) >= n /\ resps[n].kind = "response" /\ resps[n].status = status
LastAnswer == resps[Len(resps)]

\* C1: a register whose existence check (POST /users) is answered 406 returns
\* EmailAlreadyExists, and its log of requests holds that one POST and no
\* PATCH /users/@me: the call never goes on to the completion.
C1_EmailAlreadyExists ==
    (CurrentOp = "register" /\ Answered(1, 406)) =>
        /\ Returned("register")
        /\ ~result.ok
        /\ result.err = [kind |-> "EmailAlreadyExists", msg |-> <<>>]
        /\ Len(reqs) = 1
        /\ \A i \in 1..Len(reqs) : reqs[i].method # "PATCH"

C1_Witness ==
    /\ Returned("register") /\ Answered(1, 406)
    /\ result.err.kind = "EmailAlreadyExists"
    /\ Len(reqs) = 1 /\ reqs[1].method = "POST" /\ reqs[1].url = URI_USERINFO

\* C2: a register whose existence check succeeded and whose completion
\* (PATCH /users/@me) is answered 400 returns UsernameAlreadyExists, an Err:
\* no handle is returned and none is created.
C2_UsernameAlreadyExists ==
    (Returned("register") /\ Answered(2, 400)) =>
        /\ ~result.ok
        /\ result.h = 0
        /\ result.err = [kind |-> "UsernameAlreadyExists", msg |-> <<>>]

C2_Witness ==
    /\ Returned("register") /\ Answered(1, 200) /\ Answered(2, 400)
    /\ Len(reqs) = 2 /\ reqs[2].method = "PATCH"
    /\ result.err.kind = "UsernameAlreadyExists"

\* C3: send_reply on a handle on which no start_story has ever succeeded
\* returns UnexpectedError and sends nothing: no request of a send_reply is
\* ever in flight for such a handle.
C3_NoRunningStory ==
    /\ (Returned("send_reply") /\ IsNone(started[result.h])) =>
            /\ ~result.ok
            /\ result.err.kind = "UnexpectedError"
            /\ reqs = <<>>
            /\ resps = <<>>
    /\ pc.op = "send_reply" => IsSome(started[pc.h])

\* a send_reply on an Idle handle, while another handle runs a story
C3_Witness ==
    /\ Returned("send_reply") /\ IsNone(started[result.h])
    /\ result.err.kind = "UnexpectedError" /\ reqs = <<>>
    /\ \E h \in DOMAIN handles : h # result.h /\ IsSome(started[h])

\* C4: after a successful start_story the handle's session identifier is the
\* id of the body of the start response, and the request of a send_reply goes
\* to /sessions/{id}/inputs with the decimal digits of the id of the handle's
\* last successful start.
C4_SessionIdentifier ==
    /\ (Returned("start_story") /\ result.ok) =>
            handles[result.h].story_id = <<resps[1].body.f.id.v[1]>>
    /\ pc.op = "send_reply" =>
            /\ IsSome(started[pc.h])
            /\ reqs[1].method = "POST"
            /\ reqs[1].url = <<"https://api.aidungeon.io/sessions/">>
                                \o U64ToString(started[pc.h][1]) \o <<"/inputs">>

\* a send_reply in flight on a handle restarted with identifier 42
C4_Witness ==
    /\ pc.op = "send_reply"
    /\ handles[pc.h].story_id = <<42>>
    /\ reqs[1].url = <<"https://api.aidungeon.io/sessions/", "4", "2", "/inputs">>

\* C5: every operation answered with a status that is neither 200 nor
\* enumerated for that request (406 for register's existence check, 400 for
\* register's completion) returns UnexpectedError, and the message holds the
\* decimal digits of the status received.
C5_UnexpectedStatus ==
    (/\ pc.op = "idle" /\ result.op # "none" /\ resps # <<>>
     /\ LastAnswer.kind = "response"
     /\ LastAnswer.status # 200
     /\ ~(result.op = "register" /\ Len(resps) = 1 /\ LastAnswer.status = 406)
     /\ ~(result.op = "register" /\ Len(resps) = 2 /\ LastAnswer.status = 400)) =>
        /\ ~result.ok
        /\ result.err.kind = "UnexpectedError"
        /\ Contains(result.err.msg, U64ToString(LastAnswer.status))

\* a login answered 406, a status enumerated for register only
C5_Witness ==
    /\ Returned("login") /\ Answered(1, 406)
    /\ result.err.kind = "UnexpectedError"
    /\ Contains(result.err.msg, <<"4", "0", "6">>)

\* C6: a start_story on a handle that never started a session, answered with
\* a status other than 200, returns UnexpectedError and leaves the session
\* identifier absent.
C6_FailedStartStaysIdle ==
    (/\ Returned("start_story") /\ IsNone(started[result.h])
     /\ resps # <<>> /\ resps[1].kind = "response" /\ resps[1].status # 200) =>
        /\ ~result.ok
        /\ result.err.kind = "UnexpectedError"
        /\ IsNone(handles[result.h].story_id)

\* a 404 whose body would decode as a session-start result
C6_Witness ==
    /\ Returned("start_story") /\ Answered(1, 404)
    /\ resps[1].body # JBad
    /\ IsNone(handles[result.h].story_id)
    /\ result.err.kind = "UnexpectedError"

\* a step of send_reply: its call, or the arrival of its answer
SendReplyStep ==
    \/ pc.op = "send_reply"
    \/ pc.op = "idle" /\ (pc'.op = "send_reply" \/ result'.op = "send_reply")

\* C7: no step of send_reply, whatever its outcome, changes the session
\* identifier of any handle.
C7_SendReplyKeepsIdentifier ==
    [][SendReplyStep =>
        \A h \in DOMAIN handles : handles'[h].story_id = handles[h].story_id]_vars

\* a send_reply that succeeded on an Active handle
C7_Witness ==
    /\ Returned("send_reply") /\ result.ok
    /\ IsSome(handles[result.h].story_id)

\* C8: a session identifier that is present stays present: no step of any
\* call makes it absent again.
C8_NeverBackToIdle ==
    [][\A h \in DOMAIN handles :
        IsSome(handles[h].story_id) => IsSome(handles'[h].story_id)]_vars

\* a start_story that failed on an Active handle
C8_Witness ==
    /\ Returned("start_story") /\ ~result.ok
    /\ IsSome(started[result.h])
    /\ IsSome(handles[result.h].story_id)

\* a login answered 200 with a UserRecord whose token is a valid header value
LoginAnsweredWithToken ==
    /\ Returned("login") /\ Answered(1, 200)
    /\ DecodeUser(resps[1].body).ok
    /\ HeaderValueFromStr(DecodeUser(resps[1].body).accessToken).ok

LoginHandleBound ==
    /\ result.ok
    /\ result.h \in DOMAIN handles
    /\ IsNone(handles[result.h].story_id)
    /\ handles[result.h].http_client.xAccessToken = <<resps[1].body.f.accessToken.v>>

\* C9 as stated: such a login returns a handle with no session whose
\* x-access-token header is the token of the response.
C9_AsStated == LoginAnsweredWithToken => LoginHandleBound

\* C9 as amended: such a login returns that handle, unless the client that
\* carries the token cannot be built, and then it returns RequestFailed.
C9_LoginBindsToken ==
    LoginAnsweredWithToken =>
        \/ LoginHandleBound
        \/ ~result.ok /\ result.err = [kind |-> "RequestFailed", msg |-> <<"builder">>]

C9_Witness ==
    /\ LoginAnsweredWithToken /\ LoginHandleBound
    /\ resps[1].body.f.accessToken.v = <<116, 111, 107>>

\* C10 as stated, read in its favour (of the calls that succeed): a register
\* or login that has returned a handle has sent exactly two requests.
C10_AsStated ==
    (pc.op = "idle" /\ result.op \in {"register", "login"} /\ result.ok) =>
        Len(reqs) = 2

\* C10 as amended: both are synchronous (a request is sent only once every
\* earlier one is answered); login sends at most one request, and exactly one
\* when it succeeds; register sends at most two, the second only after a 200
\* to the first, and exactly two when it succeeds.
C10_RequestCounts ==
    /\ Len(reqs) - 1 <= Len(resps) /\ Len(resps) <= Len(reqs)
    /\ CurrentOp = "login" =>
            /\ Len(reqs) <= 1
            /\ result.ok => Len(reqs) = 1
    /\ CurrentOp = "register" =>
            /\ Len(reqs) <= 2
            /\ Len(reqs) = 2 => Answered(1, 200)
            /\ result.ok => Len(reqs) = 2

\* a login that succeeded with its one request
C10_Witness ==
    /\ Returned("login") /\ result.ok
    /\ Len(reqs) = 1 /\ reqs[1].method = "POST"

\* the body of the last answer does not decode as the schema the call reads
\* it as (the completion of register reads no body)
LastBodyUndecodable ==
    CASE result.op \in {"register", "login"} /\ Len(resps) = 1 ->
            ~DecodeUser(LastAnswer.body).ok
      [] result.op = "start_story" -> ~DecodeStory(LastAnswer.body).ok
      [] result.op = "send_reply" -> ~DecodeStoryTexts(LastAnswer.body).ok
      [] result.op = "get_recommended_story" -> ~DecodeStartModes(LastAnswer.body).ok
      [] OTHER -> FALSE

\* C11: a call whose last answer is a 200 with a body that does not decode as
\* the expected schema returns InvalidResponseFromServer (the decode failure)
\* and no other kind of error.
C11_DecodeFailure ==
    (/\ pc.op = "idle" /\ result.op # "none" /\ resps # <<>>
     /\ LastAnswer.kind = "response" /\ LastAnswer.status = 200
     /\ LastBodyUndecodable) =>
        /\ ~result.ok
        /\ result.err.kind = "InvalidResponseFromServer"

\* C12: a `.send()` that fails at transport level ends the call: the call
\* returns RequestFailed wrapping that error (no success, no other kind), the
\* failed request is the last one of the call, and the session identifier of
\* the handle is still the one of its last successful start.
C12_TransportFailure ==
    \A i \in 1..Len(resps) :
        resps[i].kind = "error" =>
            /\ pc.op = "idle"
            /\ i = Len(resps)
            /\ Len(reqs) = Len(resps)
            /\ ~result.ok
            /\ result.err = [kind |-> "RequestFailed", msg |-> <<"send">>]
            /\ result.h \in DOMAIN handles =>
                    handles[result.h].story_id = started[result.h]

\* the completion of a register lost in transport
C12_Witness ==
    /\ Returned("register")
    /\ Len(resps) = 2 /\ resps[2].kind = "error"
    /\ Len(reqs) = 2
    /\ result.err.kind = "RequestFailed"

\* the first step of a register failed in a way other than a 406 answer
RegisterFirstStepFailed ==
    /\ CurrentOp = "register" /\ Len(resps) >= 1
    /\ \/ resps[1].kind = "error"
       \/ resps[1].kind = "response" /\ resps[1].status \notin {200, 406}
       \/ resps[1].kind = "response" /\ resps[1].status = 200
            /\ ~DecodeUser(resps[1].body).ok

\* C13: a register whose first step fails in any way other than a 406 answer
\* (another status that is not 200, a transport failure, a 200 body that does
\* not decode) has returned an error and no handle, and its request log holds
\* the POST /users alone: the completion is never sent.
C13_RegisterAborts ==
    RegisterFirstStepFailed =>
        /\ Returned("register")
        /\ ~result.ok
        /\ result.h = 0
        /\ Len(resps) = 1
        /\ Len(reqs) = 1
        /\ reqs[1].method = "POST" /\ reqs[1].url = <<"https://api.aidungeon.io/users">>

\* a 500 whose body would decode as a UserRecord
C13_Witness ==
    /\ Returned("register") /\ Answered(1, 500)
    /\ DecodeUser(resps[1].body).ok
    /\ Len(reqs) = 1
    /\ result.err.kind = "UnexpectedError"

\* the first answer of a register or login is a 200 whose UserRecord holds a
\* token with a byte that no header value may hold (a control character
\* other than tab, DEL, or a byte beyond ASCII)
AnsweredWithBadToken ==
    /\ CurrentOp \in {"register", "login"}
    /\ Answered(1, 200)
    /\ resps[1].body.t = "obj"
    /\ "accessToken" \in DOMAIN resps[1].body.f
    /\ resps[1].body.f.accessToken.t = "str"
    /\ \E i \in 1..Len(resps[1].body.f.accessToken.v) :
          LET b == resps[1].body.f.accessToken.v[i]
          IN  (b < 32 /\ b # 9) \/ b >= 127

\* C14: a register or login whose 200 answer holds a token that is no valid
\* header value has returned UnexpectedError and no handle, having sent its
\* first request alone: register sends no completion.
C14_BadToken ==
    AnsweredWithBadToken =>
        /\ pc.op = "idle"
        /\ ~result.ok
        /\ result.h = 0
        /\ result.err.kind = "UnexpectedError"
        /\ Len(reqs) = 1
        /\ reqs[1].method = "POST"

\* a register that received the token "t\n"
C14_Witness ==
    /\ Returned("register") /\ AnsweredWithBadToken
    /\ resps[1].body.f.accessToken.v = <<116, 10>>
    /\ result.err.kind = "UnexpectedError"
    /\ Len(reqs) = 1

\* the handle of the call in progress or just returned
CurrentHandle == IF pc.op # "idle" THEN pc.h ELSE result.h

\* C15: the x-access-token header bound to a handle is, in every state, the
\* token of the 200 answer of the register or login that made it; every
\* request of start_story, send_reply and get_recommended_story carries the
\* token of its own handle; the completion of register carries the token of
\* the answer to its existence check; the first request of register and of
\* login carries no token header.
C15_TokenHeader ==
    /\ \A h \in DOMAIN handles :
            handles[h].http_client.xAccessToken = <<issued[h]>>
    /\ (CurrentOp \in {"start_story", "send_reply", "get_recommended_story"}
            /\ reqs # <<>>) =>
            /\ Len(reqs) = 1
            /\ reqs[1].headers.xAccessToken = <<issued[CurrentHandle]>>
    /\ (CurrentOp \in {"register", "login"} /\ reqs # <<>>) =>
            reqs[1].headers.xAccessToken = <<>>
    /\ (CurrentOp = "register" /\ Len(reqs) = 2) =>
            reqs[2].headers.xAccessToken = <<resps[1].body.f.accessToken.v>>

\* two handles with different tokens, a request of the second in flight
C15_Witness ==
    /\ Len(handles) = 2
    /\ issued[1] # issued[2]
    /\ pc.op = "send_reply" /\ pc.h = 2
    /\ reqs[1].headers.xAccessToken = <<issued[2]>>

\* C16: no call returns InvalidPassword, whatever the status, the body or
\* the transport outcome; a login the server rejects returns UnexpectedError.
C16_NoInvalidPassword ==
    /\ result.err.kind # "InvalidPassword"
    /\ (Returned("login") /\ resps # <<>> /\ resps[1].kind = "response"
            /\ resps[1].status # 200) =>
            result.err.kind = "UnexpectedError"

\* a login rejected with 406 and the error page of a wrong password
C16_Witness ==
    /\ Returned("login") /\ Answered(1, 406)
    /\ resps[1].body = JBad
    /\ ~result.ok /\ result.err.kind = "UnexpectedError"

\* C17: a register sends first POST /users with the caller's email and
\* neither username nor password, and then, only once that request is
\* answered 200, PATCH /users/@me with the caller's username and password and
\* no email; it sends nothing else.
C17_RegisterRequests ==
    /\ pc.op = "register" =>
            /\ reqs[1].method = "POST"
            /\ reqs[1].url = <<"https://api.aidungeon.io/users">>
            /\ reqs[1].body.f =
                    [email |-> <<pc.args[1]>>, username |-> <<>>, password |-> <<>>]
    /\ (pc.op = "register" /\ pc.stage = 1) => Len(reqs) = 1 /\ resps = <<>>
    /\ (pc.op = "register" /\ pc.stage = 2) =>
            /\ Len(reqs) = 2
            /\ Len(resps) = 1 /\ Answered(1, 200)
            /\ reqs[2].method = "PATCH"
            /\ reqs[2].url = <<"https://api.aidungeon.io/users/@me">>
            /\ reqs[2].body.f =
                    [email |-> <<>>, username |-> <<pc.args[2]>>,
                     password |-> <<pc.args[3]>>]
    /\ (Returned("register") /\ reqs # <<>>) =>
            /\ Len(reqs) <= 2
            /\ reqs[1].method = "POST"
            /\ reqs[1].url = <<"https://api.aidungeon.io/users">>
            /\ Len(reqs) = 2 =>
                    /\ Answered(1, 200)
                    /\ reqs[2].method = "PATCH"
                    /\ reqs[2].url = <<"https://api.aidungeon.io/users/@me">>

\* the completion of register("a@b.com", "alice", "secret") in flight
C17_Witness ==
    /\ pc.op = "register" /\ pc.stage = 2
    /\ reqs[1].body.f.email = <<"a@b.com">>
    /\ reqs[2].body.f.username = <<"alice">>
    /\ reqs[2].body.f.password = <<"secret">>
    /\ reqs[2].body.f.email = <<>>

\* C18: start_story checks nothing about its options.  Whenever no call is
\* in progress it can be called on every handle with every combination of
\* present and absent customPrompt, name and characterType and every
\* storyMode, and the call sends its request; the request is POST /sessions
\* with exactly the caller's four values; and a start_story never returns
\* without having sent that request and got its answer.
C18_NoValidation ==
    /\ pc.op = "idle" =>
            \A h \in DOMAIN handles, custom_prompt \in CustomPrompts,
               story_mode \in StoryModes, name \in Names,
               character_type \in CharacterTypes :
                ENABLED StartStoryCallWith(h, custom_prompt, story_mode, name,
                                           character_type)
    /\ pc.op = "start_story" =>
            /\ Len(reqs) = 1
            /\ reqs[1].method = "POST"
            /\ reqs[1].url = <<"https://api.aidungeon.io/sessions">>
            /\ reqs[1].body.f =
                    [characterType |-> pc.args[4], customPrompt |-> pc.args[1],
                     name |-> pc.args[3], storyMode |-> pc.args[2]]
    /\ Returned("start_story") => Len(reqs) = 1 /\ Len(resps) = 1

\* a request in flight whose options break the rule of the story modes:
\* mode "custom" with a name and a character type, and a prompt as well
C18_Witness ==
    /\ pc.op = "start_story"
    /\ reqs[1].body.f =
            [characterType |-> <<"knight">>, customPrompt |-> <<"You wake up...">>,
             name |-> <<"Bob">>, storyMode |-> "custom"]

\* C19 as stated: the session identifier of a handle is absent or a
\* positive integer, never 0.
C19_AsStated ==
    \A h \in DOMAIN handles :
        IsNone(handles[h].story_id) \/ handles[h].story_id[1] > 0

\* C19 as amended: the session identifier of a handle is absent as long as
\* no start_story has succeeded on it, and after one it is present and a
\* u64, the identifier the server sent: never negative, but 0 when the
\* server sends 0.
C19_IdentifierRange ==
    \A h \in DOMAIN handles :
        /\ IsNone(started[h]) => IsNone(handles[h].story_id)
        /\ IsSome(started[h]) =>
                /\ Len(handles[h].story_id) = 1
                /\ handles[h].story_id[1] >= 0

\* a session started with the identifier 0
C19_Witness ==
    /\ Returned("start_story") /\ result.ok
    /\ resps[1].body.f.id.v = <<0>>
    /\ handles[result.h].story_id = <<0>>

\* the answer r starts a session: a 200 whose body decodes
GoodStart(r) ==
    r.kind = "response" /\ r.status = 200 /\ DecodeStory(r.body).ok

\* C20: over every step, the session identifier of a handle becomes the id
\* of the answer when the step is the return of a start_story on that
\* handle answered 200 with a body that decodes, and stays what it was in
\* every other step (a start_story that fails by transport, by status or by
\* its body, every step of send_reply and get_recommended_story, every step
\* on another handle); a new handle starts with none; and a send_reply sends
\* its request to the identifier the handle holds when it is called.
C20_IdentifierHistory ==
    [][/\ \A h \in DOMAIN handles :
            handles'[h].story_id =
                IF pc.op = "start_story" /\ pc.h = h /\ GoodStart(resps'[1])
                THEN <<resps'[1].body.f.id.v[1]>>
                ELSE handles[h].story_id
       /\ \A h \in DOMAIN handles' \ DOMAIN handles :
            IsNone(handles'[h].story_id)
       /\ (pc.op = "idle" /\ pc'.op = "send_reply") =>
            reqs'[1].url = <<"https://api.aidungeon.io/sessions/">>
                             \o U64ToString(handles[pc'.h].story_id[1])
                             \o <<"/inputs">>]_vars

\* a restart on a handle in session 42, answered 200 with a body that does
\* not decode: 42 is kept
C20_Witness ==
    /\ Returned("start_story") /\ ~result.ok
    /\ Answered(1, 200)
    /\ handles[result.h].story_id = <<42>>
    /\ started[result.h] = <<42>>

====
